---------------------------- MODULE Spec2Model ----------------------------
(***************************************************************************)
(* Adaptive time-series forecasting pipeline (AI_Training.py).             *)
(*                                                                         *)
(* The script runs top to bottom; every numbered section of the script is  *)
(* one action, ordered by pc.  Real numbers are exact extended rationals   *)
(* <<num, den>> (den = 0 encodes NaN / +-Infinity), so the affine min-max  *)
(* scalers are computed, not assumed to be identities.                     *)
(*                                                                         *)
(* Representation choices:                                                 *)
(*  - a column name is a record [kind, src, cyc, k];                       *)
(*  - sin(2*pi*t/P) and cos(2*pi*t/P) are represented by the phase         *)
(*    (100*t) mod (100*P) of their argument;                               *)
(*  - a standard deviation is represented by its square (the variance);    *)
(*  - a sequence example is represented by the row indices it covers;      *)
(*  - a performance metric is represented by its floating-point class:     *)
(*    NaN, +-Infinity, or the sign of its finite value.                    *)
(***************************************************************************)
EXTENDS Integers, Naturals, Sequences, FiniteSets, TLC

(***************************************************************************)
(* Bounds of the model                                                     *)
(***************************************************************************)
MaxRows == 400
FewRows == 14
SmallRows == 20
LargeRows == 80
PlainRows == 330
SeqRows == 12
SeqMaxLen == 5
SeqMaxStride == 3
MaxHorizon == 8

\* the forecast horizons the runs are drawn from
Horizons == {-1, 0, 1, 3, MaxHorizon}

(***************************************************************************)
(* Exact extended rational arithmetic                                      *)
(***************************************************************************)
Abs(a) == IF a < 0 THEN -a ELSE a

Sign(a) == IF a < 0 THEN -1 ELSE IF a > 0 THEN 1 ELSE 0

RECURSIVE GCD(_, _)
GCD(a, b) == IF b = 0 THEN a ELSE GCD(b, a % b)

RNorm(n, d) ==
    IF d = 0 THEN <<Sign(n), 0>>
    ELSE LET g == GCD(Abs(n), Abs(d))
         IN  <<(Sign(d) * n) \div g, Abs(d) \div g>>

R(i) == <<i, 1>>

NaN == <<0, 0>>

IsFinite(x) == x[2] # 0

IsNaN(x) == x[2] = 0 /\ x[1] = 0

RAdd(x, y) ==
    IF IsNaN(x) \/ IsNaN(y) THEN NaN
    ELSE IF ~IsFinite(x) /\ ~IsFinite(y) THEN (IF x[1] = y[1] THEN x ELSE NaN)
    ELSE IF ~IsFinite(x) THEN x
    ELSE IF ~IsFinite(y) THEN y
    ELSE LET g == GCD(x[2], y[2])
         IN  RNorm(x[1] * (y[2] \div g) + y[1] * (x[2] \div g), (x[2] \div g) * y[2])

RNeg(x) == <<-x[1], x[2]>>

RSub(x, y) == RAdd(x, RNeg(y))

\* the arguments are in lowest terms, and so is the result
RMul(x, y) ==
    IF IsNaN(x) \/ IsNaN(y) THEN NaN
    ELSE IF ~IsFinite(x) \/ ~IsFinite(y) THEN <<Sign(x[1]) * Sign(y[1]), 0>>
    ELSE LET g1 == GCD(Abs(x[1]), y[2])
             g2 == GCD(Abs(y[1]), x[2])
         IN  <<(x[1] \div g1) * (y[1] \div g2), (x[2] \div g2) * (y[2] \div g1)>>

RDiv(x, y) ==
    IF IsNaN(x) \/ IsNaN(y) THEN NaN
    ELSE IF ~IsFinite(x) /\ ~IsFinite(y) THEN NaN
    ELSE IF ~IsFinite(y) THEN R(0)
    ELSE IF ~IsFinite(x) THEN <<x[1] * (IF y[1] < 0 THEN -1 ELSE 1), 0>>
    ELSE IF y[1] = 0 THEN <<Sign(x[1]), 0>>
    ELSE RMul(x, <<Sign(y[1]) * y[2], Abs(y[1])>>)

\* x < y ; every comparison with NaN is false, as in IEEE arithmetic
RLt(x, y) ==
    IF IsNaN(x) \/ IsNaN(y) THEN FALSE
    ELSE IF IsFinite(x) /\ IsFinite(y) THEN x[1] * y[2] < y[1] * x[2]
    ELSE IF ~IsFinite(x) /\ ~IsFinite(y) THEN x[1] < y[1]
    ELSE IF ~IsFinite(x) THEN x[1] < 0
    ELSE y[1] > 0

\* int(x) for a finite x >= 0
RFloor(x) == x[1] \div x[2]


(***************************************************************************)
(* Column names and the observation table                                  *)
(***************************************************************************)
Col(kind, src, cyc, k) == [kind |-> kind, src |-> src, cyc |-> cyc, k |-> k]

target_column == Col("col", "T", "", 0)

\* the name contains the text '_lag' (generated lag columns, and the CSV
\* columns xnum / xcat1 / xcat3 whose headers contain it)
HasLagInName(c) == c.kind = "lag" \/ c.src \in {"xnum", "xcat1", "xcat3"}

HasRollInName(c) == c.kind \in {"roll_mean", "roll_std"}

\* pd.api.types.is_numeric_dtype of the column
IsNumericDtype(c) == ~(c.kind = "col" /\ c.src \in {"xcat1", "xcat3"})

\* the same before the target is coerced: a target with a text cell is object
IsNumericBeforeCoercion(ser, c) ==
    IF c = target_column THEN ser \notin {"typo", "text"} ELSE IsNumericDtype(c)

\* the shapes of CSV the runs are drawn from: the extra columns after the target
CsvExtras == {<<>>, <<"xnum">>, <<"xcat1">>, <<"xcat3">>, <<"xcat3", "xnum">>}

\* the target columns the runs are drawn from: "saw" and "flat" are complete
\* numeric columns; "gap" is "saw" with the cell of raw row 2 empty; "nan" has
\* every cell empty; "typo" is "saw" read as text because the cell of raw row 2
\* is not a number; "text" has no numeric cell; "absent": no such column;
\* "missing": there is no file at the CSV path
SeriesKinds == {"saw", "flat", "gap", "nan", "typo", "text", "absent", "missing"}

TimeScales == {"Daily", "Weekly", "Monthly"}

\* target value of raw row r (0-based)
Target(ser, r) == IF ser = "flat" THEN 10 ELSE 10 + 2 * ((5 * r) % 6)

\* the target cell of raw row r is NaN after pd.read_csv
TargetMissing(ser, r) == ser = "nan" \/ (ser = "gap" /\ r = 2)

\* the target cell of raw row r is a text that pd.to_numeric coerces to NaN
TargetNotNumeric(ser, r) == ser = "text" \/ (ser = "typo" /\ r = 2)

\* category of raw row r in a categorical CSV column
Category(src, r) == IF src = "xcat1" THEN "a" ELSE <<"a", "b", "c">>[(r % 3) + 1]

get_cycle_periods(time_step) ==
    IF time_step = "days" THEN
        [yearly |-> 36525, quarterly |-> 9131, monthly |-> 3044, weekly |-> 700]
    ELSE IF time_step = "weeks" THEN [yearly |-> 5214, monthly |-> 434]
    ELSE IF time_step = "months" THEN [yearly |-> 1200, quarterly |-> 300]
    ELSE IF time_step = "quarters" THEN [yearly |-> 400]
    ELSE IF time_step = "years" THEN [decade |-> 1000]
    ELSE IF time_step = "hours" THEN
        [yearly |-> 876600, weekly |-> 16800, daily |-> 2400]
    ELSE [none \in {} |-> 0]

\* sin(2*pi*t/period) and cos(2*pi*t/period), as the phase of the argument
CyclePhase(t, period) == (100 * t) % period

\* value of a base column (the target, a cyclical column, a CSV column) at raw row r
BaseVal(ser, ts, src, cyc, r) ==
    IF src = "T" THEN Target(ser, r)
    ELSE IF src \in {"sin", "cos"} THEN CyclePhase(r, get_cycle_periods(ts)[cyc])
    ELSE IF src = "xnum" THEN 3 * r + 1
    ELSE 0

RECURSIVE SumBase(_, _, _, _, _, _)
SumBase(ser, ts, src, cyc, lo, hi) ==
    IF lo > hi THEN 0
    ELSE BaseVal(ser, ts, src, cyc, hi) + SumBase(ser, ts, src, cyc, lo, hi - 1)

\* sum over rows lo..hi of (w * value - s) squared
RECURSIVE SumSqDev(_, _, _, _, _, _, _, _)
SumSqDev(ser, ts, src, cyc, lo, hi, w, s) ==
    IF lo > hi THEN 0
    ELSE (w * BaseVal(ser, ts, src, cyc, hi) - s) * (w * BaseVal(ser, ts, src, cyc, hi) - s)
         + SumSqDev(ser, ts, src, cyc, lo, hi - 1, w, s)

\* df[col].shift(lag): NaN for the first lag rows
add_lag_features(ser, ts, c, r) ==
    IF r >= c.k /\ ~(c.src = "T" /\ TargetMissing(ser, r - c.k))
    THEN R(BaseVal(ser, ts, c.src, c.cyc, r - c.k)) ELSE NaN

\* df[col].rolling(window).mean() and .std() (sample variance, divisor w - 1):
\* NaN for the first window - 1 rows
add_rolling_features(ser, ts, c, r) ==
    IF r < c.k - 1 THEN NaN
    ELSE IF c.src = "T" /\ \E q \in (r - c.k + 1)..r : TargetMissing(ser, q) THEN NaN
    ELSE LET s  == SumBase(ser, ts, c.src, c.cyc, r - c.k + 1, r)
             d2 == SumSqDev(ser, ts, c.src, c.cyc, r - c.k + 1, r, c.k, s)
         IN  IF c.kind = "roll_mean" THEN RNorm(s, c.k)
             ELSE RNorm(d2, c.k * c.k * (c.k - 1))

\* value of column c at raw row r after feature engineering
RawVal(ser, ts, c, r) ==
    IF c = target_column /\ (TargetMissing(ser, r) \/ TargetNotNumeric(ser, r)) THEN NaN
    ELSE IF c.kind = "col" THEN R(BaseVal(ser, ts, c.src, c.cyc, r))
    ELSE IF c.kind = "lag" THEN add_lag_features(ser, ts, c, r)
    ELSE IF c.kind = "onehot" THEN
        R(IF Category(c.src, r) = c.cyc THEN 1 ELSE 0)
    ELSE add_rolling_features(ser, ts, c, r)

(***************************************************************************)
(* List helpers                                                            *)
(***************************************************************************)
\* concatenation of the lists ss[lo], ..., ss[hi]
RECURSIVE FlattenRange(_, _, _)
FlattenRange(ss, lo, hi) ==
    IF lo > hi THEN <<>>
    ELSE IF lo = hi THEN ss[lo]
    ELSE FlattenRange(ss, lo, (lo + hi) \div 2)
         \o FlattenRange(ss, (lo + hi) \div 2 + 1, hi)

Flatten(ss) == FlattenRange(ss, 1, Len(ss))

InSeq(x, s) == \E i \in 1..Len(s) : s[i] = x

\* list(dict.fromkeys(s)): the first occurrence of every element, in order
Dedup(s) ==
    Flatten([i \in 1..Len(s) |->
        IF \E j \in 1..(i - 1) : s[j] = s[i] THEN <<>> ELSE <<s[i]>>])

IndexOf(x, s) == CHOOSE i \in 1..Len(s) : s[i] = x

(***************************************************************************)
(* State                                                                   *)
(***************************************************************************)
VARIABLES
    pc,                  \* section of the script about to run
    exit_code,           \* process status once pc = "exit", else -1
    series,              \* input: which target series the CSV holds
    csv_extra,           \* input: CSV columns besides the target
    raw_rows,            \* input: number of rows of the CSV
    TIME_SCALE,          \* input: environment variable TIME_SCALE
    FORECAST_WINDOW,     \* input: environment variable FORECAST_WINDOW
    DATA_TIME_STEP, ENABLED_CYCLES,
    df_columns,          \* columns of df, in order
    df,                  \* rows of df: [orig |-> raw row, index |-> index label]
    feature_columns,
    est_train_size, model_type, MAX_OH_CATS,
    numeric_features, categorical_features, df_encoded, X,
    scaler_X, scaler_y,  \* fitted [data_min, data_max] per column
    SEQ_LEN, initial_samples, stride, X_seq, y_seq, data_was_augmented,
    split_idx,
    cv,                  \* folds handed to GridSearchCV, -1 if it was not started
    model,               \* the fitted estimator
    conf_val,
    metrics,             \* the eight train / test metrics, <<>> before section 9
    squares,             \* train_rmse, test_rmse, np.std(y_train_inv), squared
    diagnosis,           \* the outcome the model diagnosis printed, "" if none
    last_seq, future_preds_scaled, step, last_index, col_indices,
    new_rows,            \* the physical rows appended to the window, in order
    output,              \* the forecast block printed, <<>> if none
    shadow               \* a second forecast run of the same fitted state

inputVars == <<series, csv_extra, raw_rows, TIME_SCALE, FORECAST_WINDOW>>

featVars == <<DATA_TIME_STEP, ENABLED_CYCLES, df_columns, feature_columns>>

selVars == <<est_train_size, model_type, MAX_OH_CATS>>

encVars == <<numeric_features, categorical_features, df_encoded, X,
             scaler_X, scaler_y>>

seqVars == <<SEQ_LEN, initial_samples, stride, X_seq, y_seq, data_was_augmented>>

diagVars == <<squares, diagnosis>>

trainVars == <<cv, model, conf_val, metrics, diagVars>>

loopVars == <<last_seq, future_preds_scaled, step, last_index, col_indices,
              new_rows>>

vars == <<pc, exit_code, inputVars, featVars, df, selVars, encVars, seqVars,
          split_idx, trainVars, loopVars, output, shadow>>

(***************************************************************************)
(* Sections 2.5 and 3: seasonality configuration and feature engineering   *)
(***************************************************************************)
Lags == <<1, 3, 7>>

Windows == <<3, 7>>

\* the column names add_lag_features creates for the columns cols
LagCols(cols) ==
    Flatten([i \in 1..Len(cols) |->
        [j \in 1..Len(Lags) |-> Col("lag", cols[i].src, cols[i].cyc, Lags[j])]])

\* the column names add_rolling_features creates for the columns cols
RollCols(cols) ==
    Flatten([i \in 1..Len(cols) |->
        Flatten([j \in 1..Len(Windows) |->
            <<Col("roll_mean", cols[i].src, cols[i].cyc, Windows[j]),
              Col("roll_std", cols[i].src, cols[i].cyc, Windows[j])>>])])

\* sin_<cycle>, cos_<cycle>
CycleCols(cycle) == <<Col("col", "sin", cycle, 0), Col("col", "cos", cycle, 0)>>

\* the columns add_cyclical_features creates: only cycles with a known period
add_cyclical_features(time_step, cycles) ==
    Flatten([i \in 1..Len(cycles) |->
        IF cycles[i] \in DOMAIN get_cycle_periods(time_step)
        THEN CycleCols(cycles[i]) ELSE <<>>])

TimeStepOf(scale) ==
    IF scale = "Daily" THEN "days"
    ELSE IF scale = "Monthly" THEN "months"
    ELSE "days"

CyclesOf(scale) ==
    IF scale = "Daily" THEN <<"yearly", "weekly">>
    ELSE IF scale = "Monthly" THEN <<"yearly", "quarterly">>
    ELSE <<"yearly">>

\* the check of the CSV path before pd.read_csv: without a file the script
\* exits with status 1; the table read from an existing file is df
LoadCsv ==
    /\ pc = "load"
    /\ IF series = "missing"
       THEN pc' = "exit" /\ exit_code' = 1
       ELSE pc' = "features" /\ UNCHANGED exit_code
    /\ UNCHANGED <<inputVars, featVars, df, selVars, encVars, seqVars, split_idx,
                   trainVars, loopVars, output, shadow>>

FeatureEngineering ==
    /\ pc = "features"
    /\ LET ts    == TimeStepOf(TIME_SCALE)
           cyc   == CyclesOf(TIME_SCALE)
           cols1 == df_columns \o add_cyclical_features(ts, cyc)
           fc1   == feature_columns
                    \o Flatten([i \in 1..Len(cyc) |-> CycleCols(cyc[i])])
           lagsrc == SelectSeq(<<target_column>> \o fc1,
                         LAMBDA c : IsNumericBeforeCoercion(series, c))
           cols2 == cols1 \o LagCols(SelectSeq(lagsrc, LAMBDA c : InSeq(c, cols1)))
           fc2   == fc1 \o SelectSeq(cols2, HasLagInName)
           rollsrc == SelectSeq(<<target_column>> \o fc2,
                          LAMBDA c : IsNumericBeforeCoercion(series, c)
                                     /\ ~HasLagInName(c) /\ ~HasRollInName(c))
           cols3 == cols2 \o RollCols(SelectSeq(rollsrc, LAMBDA c : InSeq(c, cols2)))
           fc3   == fc2 \o SelectSeq(cols3, HasRollInName)
       IN  /\ DATA_TIME_STEP' = ts
           /\ ENABLED_CYCLES' = cyc
           /\ IF ~InSeq(target_column, df_columns)
              THEN /\ pc' = "exit" /\ exit_code' = 1
                   /\ UNCHANGED <<df_columns, feature_columns>>
              ELSE /\ df_columns' = cols3
                   /\ feature_columns' =
                          SelectSeq(Dedup(fc3), LAMBDA c : InSeq(c, cols3))
                   /\ pc' = "dropna" /\ UNCHANGED exit_code
    /\ UNCHANGED <<inputVars, df, selVars, encVars, seqVars, split_idx,
                   trainVars, loopVars, output, shadow>>

\* variant: the script goes on when no row is left
DropNaTargetUnchecked ==
    /\ pc = "dropna"
    /\ LET kept == SelectSeq(df, LAMBDA row : ~TargetMissing(series, row.orig))
       IN  df' = [i \in 1..Len(kept) |-> [orig |-> kept[i].orig, index |-> i - 1]]
    /\ pc' = "select" /\ UNCHANGED exit_code
    /\ UNCHANGED <<inputVars, featVars, selVars, encVars, seqVars, split_idx,
                   trainVars, loopVars, output, shadow>>

\* df.dropna(subset=[target_column]).reset_index(drop=True); exit when empty
DropNaTarget ==
    /\ pc = "dropna"
    /\ LET kept == SelectSeq(df, LAMBDA row : ~TargetMissing(series, row.orig))
       IN  df' = [i \in 1..Len(kept) |-> [orig |-> kept[i].orig, index |-> i - 1]]
    /\ IF Len(df') = 0
       THEN pc' = "exit" /\ exit_code' = 1
       ELSE pc' = "select" /\ UNCHANGED exit_code
    /\ UNCHANGED <<inputVars, featVars, selVars, encVars, seqVars, split_idx,
                   trainVars, loopVars, output, shadow>>

(***************************************************************************)
(* Section 3.5: model selection before encoding                            *)
(***************************************************************************)
Min(a, b) == IF a < b THEN a ELSE b

\* the branch of `if samples < 100 ... elif samples < 300 ... else`
TierOf(samples) == IF samples < 100 THEN 1 ELSE IF samples < 300 THEN 2 ELSE 3

\* est_initial_samples = len(df) - min(20, len(df) // 5)
EstInitialSamples(n_rows) == n_rows - Min(20, n_rows \div 5)

\* the growth the estimate assumes in a tier: * 3, / 3 * 2, * 1
EstMultiplier(tier) == IF tier = 1 THEN R(3) ELSE IF tier = 2 THEN <<2, 3>> ELSE R(1)

\* variant: the estimate uses the window cap 30 of SEQ_LEN
EstTrainSizeWindow30(n_rows) ==
    LET est_seq_len == Min(30, n_rows \div 5)
        est_initial_samples == n_rows - est_seq_len
    IN  IF est_initial_samples < 100
        THEN RMul(RMul(R(est_initial_samples), R(3)), <<4, 5>>)
        ELSE IF est_initial_samples < 300
        THEN RMul(RMul(RDiv(R(est_initial_samples), R(3)), R(2)), <<4, 5>>)
        ELSE RMul(R(est_initial_samples), <<4, 5>>)

EstTrainSize(n_rows) ==
    LET est_seq_len == Min(20, n_rows \div 5)
        est_initial_samples == n_rows - est_seq_len
    IN  IF est_initial_samples < 100
        THEN RMul(RMul(R(est_initial_samples), R(3)), <<4, 5>>)
        ELSE IF est_initial_samples < 300
        THEN RMul(RMul(RDiv(R(est_initial_samples), R(3)), R(2)), <<4, 5>>)
        ELSE RMul(R(est_initial_samples), <<4, 5>>)

ModelTypeFor(est) == IF RLt(est, R(150)) THEN "SVR" ELSE "LSTM"

\* variant: the two caps exchanged
MaxOhCatsSwapped(est) == IF RLt(est, R(150)) THEN 50 ELSE 20

MaxOhCatsFor(est) == IF RLt(est, R(150)) THEN 20 ELSE 50

SelectModelAt(from, to) ==
    /\ pc = from
    /\ est_train_size' = EstTrainSize(Len(df))
    /\ model_type' = ModelTypeFor(est_train_size')
    /\ MAX_OH_CATS' = MaxOhCatsFor(est_train_size')
    /\ pc' = to
    /\ UNCHANGED <<exit_code, inputVars, featVars, df, encVars, seqVars, split_idx,
                   trainVars, loopVars, output, shadow>>

(***************************************************************************)
(* Section 3.5 continued: cleaning, encoding, the matrix X and the scalers *)
(***************************************************************************)
\* df.fillna(method='ffill'): the last valid value at or before row i of df
RECURSIVE FFill(_, _, _, _, _)
FFill(ser, ts, c, rows, i) ==
    IF i = 0 THEN NaN
    ELSE LET v == RawVal(ser, ts, c, rows[i].orig)
         IN  IF ~IsNaN(v) THEN v ELSE FFill(ser, ts, c, rows, i - 1)

\* .fillna(method='bfill'): the first valid value at or after row i of df
RECURSIVE BFill(_, _, _, _, _)
BFill(ser, ts, c, rows, i) ==
    IF i > Len(rows) THEN NaN
    ELSE LET v == RawVal(ser, ts, c, rows[i].orig)
         IN  IF ~IsNaN(v) THEN v ELSE BFill(ser, ts, c, rows, i + 1)

\* value of feature column c in row i (1-based) of the cleaned df; a column
\* that is NaN in every row stays NaN (its median is NaN)
FeatVal(ser, ts, c, rows, i) ==
    LET f == FFill(ser, ts, c, rows, i)
    IN  IF ~IsNaN(f) THEN f ELSE BFill(ser, ts, c, rows, i)

CatNames == <<"a", "b", "c">>

CatCount(src, rows, cat) ==
    Cardinality({i \in 1..Len(rows) : Category(src, rows[i].orig) = cat})

\* unique_vals.nlargest(MAX_OH_CATS).index: the cap most frequent categories
TopK(src, rows, cap) ==
    {CatNames[a] : a \in {a \in 1..Len(CatNames) :
        /\ CatCount(src, rows, CatNames[a]) > 0
        /\ Cardinality({b \in 1..Len(CatNames) :
              \/ CatCount(src, rows, CatNames[b]) > CatCount(src, rows, CatNames[a])
              \/ /\ CatCount(src, rows, CatNames[b]) = CatCount(src, rows, CatNames[a])
                 /\ b < a}) < cap}}

\* pd.get_dummies(df[[c]], drop_first=True): one column per category present
\* after the top-K limit, in sorted order, without the first
Dummies(c, rows, cap) ==
    LET present == SelectSeq(CatNames, LAMBDA a : a \in TopK(c.src, rows, cap))
    IN  [j \in 1..(Len(present) - 1) |-> Col("onehot", c.src, present[j + 1], 0)]

get_dummies(cats, rows, cap) ==
    Flatten([i \in 1..Len(cats) |-> Dummies(cats[i], rows, cap)])

\* X = df_encoded / X_numeric / pd.concat([X_numeric, df_encoded], axis=1)
BuildX(numeric, encoded, n_rows) ==
    LET X_numeric_empty  == numeric = <<>> \/ n_rows = 0
        df_encoded_empty == encoded = <<>> \/ n_rows = 0
    IN  IF X_numeric_empty THEN encoded
        ELSE IF df_encoded_empty THEN numeric
        ELSE numeric \o encoded

RMin(x, y) == IF IsNaN(x) THEN y ELSE IF IsNaN(y) THEN x ELSE IF RLt(y, x) THEN y ELSE x

RMax(x, y) == IF IsNaN(x) THEN y ELSE IF IsNaN(y) THEN x ELSE IF RLt(x, y) THEN y ELSE x

\* a fitted MinMaxScaler column: data_min_, data_max_, scale_ (1 / data_range,
\* and 1 where the range is 0) and min_ = 0 - data_min_ * scale_
Fitted(lo, hi) ==
    LET data_range == RSub(hi, lo)
        scale == IF data_range = R(0) THEN R(1) ELSE RDiv(R(1), data_range)
    IN  [data_min |-> lo, data_max |-> hi, scale_ |-> scale,
         min_ |-> RSub(R(0), RMul(lo, scale))]

\* <<np.nanmin, np.nanmax>> of column c over rows lo..hi of df
RECURSIVE ColumnRange(_, _, _, _, _, _)
ColumnRange(ser, ts, c, rows, lo, hi) ==
    IF lo > hi THEN <<NaN, NaN>>
    ELSE IF lo = hi
    THEN LET v == FeatVal(ser, ts, c, rows, lo) IN <<v, v>>
    ELSE LET mid == (lo + hi) \div 2
             a == ColumnRange(ser, ts, c, rows, lo, mid)
             b == ColumnRange(ser, ts, c, rows, mid + 1, hi)
         IN  <<RMin(a[1], b[1]), RMax(a[2], b[2])>>

\* MinMaxScaler.fit on one column
FitColumn(ser, ts, c, rows) ==
    LET r == ColumnRange(ser, ts, c, rows, 1, Len(rows)) IN Fitted(r[1], r[2])

NoFit == Fitted(NaN, NaN)

\* MinMaxScaler.transform: x * scale_ + min_
transform(sc, x) == RAdd(RMul(x, sc.scale_), sc.min_)

\* MinMaxScaler.inverse_transform: (x - min_) / scale_
inverse_transform(sc, x) == RDiv(RSub(x, sc.min_), sc.scale_)

CleanAndEncode ==
    /\ pc = "encode"
    /\ LET kept == SelectSeq(df, LAMBDA row : ~TargetNotNumeric(series, row.orig))
           num == SelectSeq(feature_columns, IsNumericDtype)
           cat == SelectSeq(feature_columns, LAMBDA c : ~IsNumericDtype(c))
           enc == get_dummies(cat, kept, MAX_OH_CATS)
           Xc  == BuildX(num, enc, Len(kept))
       IN  /\ df' = kept
           /\ IF Len(kept) = 0
              THEN /\ pc' = "exit" /\ exit_code' = 1
                   /\ UNCHANGED encVars
              ELSE /\ numeric_features' = num
                   /\ categorical_features' = cat
                   /\ df_encoded' = enc
                   /\ IF Xc = <<>>
                      THEN /\ pc' = "exit" /\ exit_code' = 1
                           /\ UNCHANGED <<X, scaler_X, scaler_y>>
                      ELSE /\ X' = Xc
                           /\ scaler_X' = [j \in 1..Len(Xc) |->
                                  FitColumn(series, DATA_TIME_STEP, Xc[j], kept)]
                           /\ scaler_y' = FitColumn(series, DATA_TIME_STEP,
                                                    target_column, kept)
                           /\ pc' = "sequences" /\ UNCHANGED exit_code
    /\ UNCHANGED <<inputVars, featVars, selVars, seqVars, split_idx,
                   trainVars, loopVars, output, shadow>>

(***************************************************************************)
(* Section 4: sequences with adaptive augmentation; section 5: split       *)
(***************************************************************************)
\* variant: the number of values rounds down
RangeLenFloor(start, stop, strd) ==
    IF stop <= start THEN 0 ELSE (stop - start) \div strd

\* len(range(start, stop, step)) for step >= 1
RangeLen(start, stop, strd) ==
    IF stop <= start THEN 0 ELSE (stop - start + strd - 1) \div strd

\* variant: the label is read at the last row of the window, y_scaled[i - 1]
create_sequences_label_in_window(n, seq_len, strd) ==
    << [k \in 1..RangeLen(seq_len, n, strd) |->
           [lo |-> (seq_len + (k - 1) * strd) - seq_len,
            hi |-> seq_len + (k - 1) * strd, jit |-> FALSE]],
       [k \in 1..RangeLen(seq_len, n, strd) |->
           [row |-> seq_len + (k - 1) * strd - 1, jit |-> FALSE]] >>

\* for i in range(seq_len, n, stride): window rows [i - seq_len, i), label row i
\* (0-based rows of X_scaled / y_scaled); returns <<X_seq, y_seq>>
create_sequences_with_stride(n, seq_len, strd) ==
    << [k \in 1..RangeLen(seq_len, n, strd) |->
           [lo |-> (seq_len + (k - 1) * strd) - seq_len,
            hi |-> seq_len + (k - 1) * strd, jit |-> FALSE]],
       [k \in 1..RangeLen(seq_len, n, strd) |->
           [row |-> seq_len + (k - 1) * strd, jit |-> FALSE]] >>

\* train_svr.py: for i in range(len(values) - sequence_length):
\* window rows [i, i + sequence_length), label row i + sequence_length
create_sequences_svr(n, sequence_length) ==
    << [k \in 1..RangeLen(0, n - sequence_length, 1) |->
           [lo |-> k - 1, hi |-> (k - 1) + sequence_length, jit |-> FALSE]],
       [k \in 1..RangeLen(0, n - sequence_length, 1) |->
           [row |-> (k - 1) + sequence_length, jit |-> FALSE]] >>

\* variant: the noisy copy is stacked before the originals
augment_with_jittering_first(Xs, ys) ==
    << [k \in 1..Len(Xs) |-> [Xs[k] EXCEPT !.jit = TRUE]] \o Xs,
       [k \in 1..Len(ys) |-> [ys[k] EXCEPT !.jit = TRUE]] \o ys >>

\* np.vstack of the originals and num_copies = 1 noisy copy; the noise is
\* random, a jittered example is marked by jit
augment_with_jittering(Xs, ys) ==
    << Xs \o [k \in 1..Len(Xs) |-> [Xs[k] EXCEPT !.jit = TRUE]],
       ys \o [k \in 1..Len(ys) |-> [ys[k] EXCEPT !.jit = TRUE]] >>

\* variant: the first tier includes 100 initial samples
StrideForInclusive(samples) ==
    IF samples <= 100 THEN 1 ELSE IF samples < 300 THEN 3 ELSE 1

StrideFor(samples) == IF samples < 100 THEN 1 ELSE IF samples < 300 THEN 3 ELSE 1

AugmentedFor(samples) == samples < 300

CreateSequencesAt(from, to) ==
    /\ pc = from
    /\ SEQ_LEN' = Min(30, Len(df) \div 5)
    /\ initial_samples' = Len(df) - SEQ_LEN'
    /\ stride' = StrideFor(initial_samples')
    /\ data_was_augmented' = AugmentedFor(initial_samples')
    /\ LET base == create_sequences_with_stride(Len(df), SEQ_LEN', stride')
           res  == IF data_was_augmented'
                   THEN augment_with_jittering(base[1], base[2]) ELSE base
       IN  X_seq' = res[1] /\ y_seq' = res[2]
    /\ pc' = to
    /\ UNCHANGED <<exit_code, inputVars, featVars, df, selVars, encVars, split_idx,
                   trainVars, loopVars, output, shadow>>

\* split_idx = int(0.8 * len(X_seq))
SplitIdx(len) == RFloor(RMul(<<4, 5>>, R(len)))

TrainTestSplitAt(from, to) ==
    /\ pc = from
    /\ split_idx' = SplitIdx(Len(X_seq))
    /\ pc' = to
    /\ UNCHANGED <<exit_code, inputVars, featVars, df, selVars, encVars, seqVars,
                   trainVars, loopVars, output, shadow>>

X_train_seq == SubSeq(X_seq, 1, split_idx)

X_test_seq == SubSeq(X_seq, split_idx + 1, Len(X_seq))

y_train_seq == SubSeq(y_seq, 1, split_idx)

y_test_seq == SubSeq(y_seq, split_idx + 1, Len(y_seq))

(***************************************************************************)
(* Section 7: training                                                     *)
(***************************************************************************)
\* what a fit can return: the estimator, as a function of the input window, and
\* the standard deviation of its test residuals (scaled units)
FitResults == {[model |-> "mid", conf_val |-> R(0)],
               [model |-> "echo", conf_val |-> <<1, 10>>]}

\* cv = min(3, len(X_train_flat) // 10)
CvFolds(train_size) == Min(3, train_size \div 10)

HasNaNColumn == \E j \in 1..Len(scaler_X) : IsNaN(scaler_X[j].data_min)

\* SVR: GridSearchCV(cv = ...).fit raises for fewer than 2 folds and for NaN
\* input, and the exception hook exits with status 1.  LSTM: model.fit.
TrainAt(from, to) ==
    /\ pc = from
    /\ IF model_type = "SVR"
       THEN /\ cv' = CvFolds(Len(X_train_seq))
            /\ IF cv' < 2 \/ HasNaNColumn
               THEN /\ pc' = "exit" /\ exit_code' = 1
                    /\ UNCHANGED <<model, conf_val>>
               ELSE /\ \E fit \in FitResults :
                          model' = fit.model /\ conf_val' = fit.conf_val
                    /\ pc' = to /\ UNCHANGED exit_code
       ELSE /\ \E fit \in FitResults :
                  model' = fit.model /\ conf_val' = fit.conf_val
            /\ pc' = to
            /\ UNCHANGED <<cv, exit_code>>
    /\ UNCHANGED <<inputVars, featVars, df, selVars, encVars, seqVars, split_idx,
                   metrics, diagVars, loopVars, output, shadow>>

(***************************************************************************)
(* Section 11: autoregressive forecast                                     *)
(***************************************************************************)
\* svr_model.predict / model.predict on the window: the scaled prediction
Predict(m, window) ==
    IF m = "mid" THEN <<1, 2>> ELSE window[Len(window)][1]

\* variant: the encoded columns placed before the numeric ones
FinalFeatureOrderEncodedFirst(numeric, categorical, encoded) ==
    (IF categorical # <<>> THEN encoded ELSE <<>>)
    \o (IF numeric # <<>> THEN numeric ELSE <<>>)

\* final_feature_order: numeric_features, then df_encoded.columns
FinalFeatureOrder(numeric, categorical, encoded) ==
    (IF numeric # <<>> THEN numeric ELSE <<>>)
    \o (IF categorical # <<>> THEN encoded ELSE <<>>)

Range(f) == {f[i] : i \in DOMAIN f}

\* {name: i for i, name in enumerate(order)}: 0-based, the last occurrence wins
ColIndices(order) ==
    [name \in Range(order) |->
        (CHOOSE i \in 1..Len(order) :
            order[i] = name /\ \A j \in (i + 1)..Len(order) : order[j] # name) - 1]

\* X_scaled[-SEQ_LEN:]
LastRows(n_rows, seq_len) == IF seq_len = 0 THEN 1..n_rows ELSE (n_rows - seq_len + 1)..n_rows

ScaledRow(i) ==
    [j \in 1..Len(X) |-> transform(scaler_X[j], FeatVal(series, DATA_TIME_STEP, X[j], df, i))]

\* variant: the window always takes 30 rows
InitialWindowThirty ==
    LET n == Min(30, Len(df))
    IN  [k \in 1..n |-> ScaledRow(Len(df) - n + k)]

\* last_seq = X_scaled[-SEQ_LEN:]
InitialWindow ==
    LET first == IF SEQ_LEN = 0 THEN 1 ELSE Len(df) - SEQ_LEN + 1
    IN  [k \in 1..Cardinality(LastRows(Len(df), SEQ_LEN)) |-> ScaledRow(first + k - 1)]

(***************************************************************************)
(* Sections 8 and 9: inverse scaling and metrics                           *)
(***************************************************************************)
\* one draw of np.random.normal(0, noise_level) per example: never 0
NoiseDraw(k) == IF k % 2 = 0 THEN <<1, 10>> ELSE <<-1, 10>>

\* y_seq[k] in scaled space: y_scaled[row], plus noise in a jittered copy
LabelScaled(k) ==
    LET y == transform(scaler_y,
                 FeatVal(series, DATA_TIME_STEP, target_column, df, y_seq[k].row + 1))
    IN  IF y_seq[k].jit THEN RAdd(y, NoiseDraw(k)) ELSE y

\* X_seq[k]: rows lo .. hi - 1 of X_scaled, plus noise in a jittered copy
WindowScaled(k) ==
    [q \in 1..(X_seq[k].hi - X_seq[k].lo) |->
        [j \in 1..Len(X) |->
            IF X_seq[k].jit
            THEN RAdd(ScaledRow(X_seq[k].lo + q)[j], NoiseDraw(k + 1))
            ELSE ScaledRow(X_seq[k].lo + q)[j]]]

\* y_train_inv / y_test_inv and y_train_pred_inv / y_test_pred_inv at example k
LabelInv(k) == inverse_transform(scaler_y, LabelScaled(k))

PredInv(k) == inverse_transform(scaler_y, Predict(model, WindowScaled(k)))

\* the sign of sum((y - pred) ** 2), and of sum(abs(y - pred))
ResidualSign(ks) == IF \A k \in ks : LabelInv(k) = PredInv(k) THEN 0 ELSE 1

\* the sign of sum((y - mean(y)) ** 2)
TotalSign(ks) ==
    IF \A k \in ks : LabelInv(k) = LabelInv(CHOOSE k0 \in ks : TRUE) THEN 0 ELSE 1

\* mean_absolute_error, and mean_squared_error under the root
ErrorMetric(ks) == R(ResidualSign(ks))

\* np.mean(np.abs((y - pred) / (y + 1e-8))) * 100: a term divides by zero
\* only where y = -1e-8
Mape(ks) ==
    LET zero == {k \in ks : LabelInv(k) = <<-1, 100000000>>}
    IN  IF zero = {} THEN R(ResidualSign(ks))
        ELSE IF \E k \in zero : LabelInv(k) = PredInv(k) THEN NaN
        ELSE <<1, 0>>

\* 1 - sum((y - pred) ** 2) / sum((y - mean(y)) ** 2), in floating point:
\* x / 0.0 is +-inf or nan, without an exception
RSquared(ks) == RSub(R(1), RDiv(R(ResidualSign(ks)), R(TotalSign(ks))))

\* the sklearn metrics raise ValueError on an empty or non-finite array
MetricsRaise(ks) ==
    \/ ks = {}
    \/ \E k \in ks : ~IsFinite(LabelInv(k)) \/ ~IsFinite(PredInv(k))

Evaluate ==
    /\ pc = "evaluate"
    /\ LET train == 1..split_idx
           test  == (split_idx + 1)..Len(X_seq)
       IN  IF MetricsRaise(train) \/ MetricsRaise(test)
           THEN /\ pc' = "exit" /\ exit_code' = 1
                /\ UNCHANGED metrics
           ELSE /\ metrics' = [trainMAE  |-> ErrorMetric(train),
                               trainRMSE |-> ErrorMetric(train),
                               trainMAPE |-> Mape(train),
                               trainR2   |-> RSquared(train),
                               testMAE   |-> ErrorMetric(test),
                               testRMSE  |-> ErrorMetric(test),
                               testMAPE  |-> Mape(test),
                               testR2    |-> RSquared(test)]
                /\ pc' = "forecast_init" /\ UNCHANGED exit_code
    /\ UNCHANGED <<inputVars, featVars, df, selVars, encVars, seqVars, split_idx,
                   cv, model, conf_val, diagVars, loopVars, output, shadow>>

\* train_r2 = 1 - sum((y - pred) ** 2) / sum((y - mean(y)) ** 2) over the
\* arrays train_rmse and np.std(y_train_inv) are taken from: 1 - mse / variance
TrainR2(sq) == RSub(R(1), RDiv(sq.train_mse, sq.y_train_var))

\* test_train_ratio = test_rmse / train_rmse, as its square; a division by
\* 0.0 gives inf or nan without an exception
TestTrainRatio(sq) == RDiv(sq.test_mse, sq.train_mse)

\* variant: the R2 test comes before the train-error test
DiagnosisR2First(sq) ==
    IF RLt(TrainR2(sq), <<3, 10>>) THEN "LOW R2 SCORE"
    ELSE IF RLt(RMul(sq.y_train_var, <<16, 25>>), sq.train_mse) THEN "HIGH TRAIN ERROR"
    ELSE IF RLt(<<9, 4>>, TestTrainRatio(sq)) THEN "OVERFITTING DETECTED"
    ELSE IF RLt(TestTrainRatio(sq), <<16, 25>>) THEN "UNUSUAL"
    ELSE "GOOD GENERALIZATION"

\* the if / elif chain of the model diagnosis; the non-negative quantities
\* are compared through their squares (0.8 ** 2 = 16/25, 1.5 ** 2 = 9/4)
Diagnosis(sq) ==
    IF RLt(RMul(sq.y_train_var, <<16, 25>>), sq.train_mse) THEN "HIGH TRAIN ERROR"
    ELSE IF RLt(TrainR2(sq), <<3, 10>>) THEN "LOW R2 SCORE"
    ELSE IF RLt(<<9, 4>>, TestTrainRatio(sq)) THEN "OVERFITTING DETECTED"
    ELSE IF RLt(TestTrainRatio(sq), <<16, 25>>) THEN "UNUSUAL"
    ELSE "GOOD GENERALIZATION"

\* the model diagnosis: it prints one outcome and the script goes on
Diagnose ==
    /\ pc = "diagnose"
    /\ diagnosis' = Diagnosis(squares)
    /\ pc' = "forecast_init"
    /\ UNCHANGED <<exit_code, inputVars, featVars, df, selVars, encVars, seqVars,
                   split_idx, cv, model, conf_val, metrics, squares, loopVars,
                   output, shadow>>

ForecastInit ==
    /\ pc = "forecast_init"
    /\ last_seq' = InitialWindow
    /\ future_preds_scaled' = <<>>
    /\ last_index' = df[Len(df)].index
    /\ col_indices' = ColIndices(FinalFeatureOrder(numeric_features,
                                     categorical_features, df_encoded))
    /\ step' = 1
    /\ new_rows' = <<>>
    /\ shadow' = IF shadow.active
                 THEN [shadow EXCEPT !.last_seq = InitialWindow, !.step = 1]
                 ELSE shadow
    /\ pc' = "forecast"
    /\ UNCHANGED <<exit_code, inputVars, featVars, df, selVars, encVars, seqVars,
                   split_idx, trainVars, output>>

\* variant: the 0-based index is used as a 1-based position
SetSlotOneBased(row, name, v) ==
    IF name \in DOMAIN col_indices /\ col_indices[name] >= 1
    THEN [row EXCEPT ![col_indices[name]] = v] ELSE row

\* new_row_unscaled[col_indices[name]] = v, when name is in col_indices
SetSlot(row, name, v) ==
    IF name \in DOMAIN col_indices
    THEN [row EXCEPT ![col_indices[name] + 1] = v] ELSE row

\* step 4 of the loop body: sin / cos of every enabled cycle at future_idx
RECURSIVE UpdateCycles(_, _, _)
UpdateCycles(row, i, future_idx) ==
    IF i > Len(ENABLED_CYCLES) THEN row
    ELSE LET cycle == ENABLED_CYCLES[i]
             cycle_periods == get_cycle_periods(DATA_TIME_STEP)
         IN  IF cycle \in DOMAIN cycle_periods
             THEN LET v == R(CyclePhase(future_idx, cycle_periods[cycle]))
                  IN  UpdateCycles(
                          SetSlot(SetSlot(row, Col("col", "sin", cycle, 0), v),
                                  Col("col", "cos", cycle, 0), v),
                          i + 1, future_idx)
             ELSE UpdateCycles(row, i + 1, future_idx)

\* variant: lag3 / lag7 read the newest prediction
LagSourceLatest(st, lag) == st

\* future_preds_scaled[step - lag - 1]: the (1-based) step whose prediction
\* fills the lag slot
LagSource(st, lag) == st - lag

\* variant: no lag slot is refreshed (the loop of AI_Model/AI_Training.py)
UpdateLagsKeepHistory(row, i, st, preds) == row

\* step 5 of the loop body: the target's lag slots
RECURSIVE UpdateLags(_, _, _, _)
UpdateLags(row, i, st, preds) ==
    IF i > Len(Lags) THEN row
    ELSE LET lag == Lags[i]
             lag_col == Col("lag", "T", "", lag)
         IN  IF lag = 1
             THEN UpdateLags(SetSlot(row, lag_col,
                                 inverse_transform(scaler_y, preds[st])),
                             i + 1, st, preds)
             ELSE IF st > lag
             THEN UpdateLags(SetSlot(row, lag_col,
                                 inverse_transform(scaler_y, preds[LagSource(st, lag)])),
                             i + 1, st, preds)
             ELSE UpdateLags(row, i + 1, st, preds)

RECURSIVE RSum(_)
RSum(xs) == IF xs = <<>> THEN R(0) ELSE RAdd(Head(xs), RSum(Tail(xs)))

\* np.mean
NpMean(xs) == RDiv(RSum(xs), R(Len(xs)))

\* np.std (divisor w), as its square
NpStd(xs) ==
    LET m == NpMean(xs)
    IN  RDiv(RSum([i \in 1..Len(xs) |-> RMul(RSub(xs[i], m), RSub(xs[i], m))]),
             R(Len(xs)))

\* the target's rolling slots over future_preds_scaled[step - window : step]
RECURSIVE UpdateRolling(_, _, _, _)
UpdateRolling(row, i, st, preds) ==
    IF i > Len(Windows) THEN row
    ELSE LET window == Windows[i]
             recent_preds == [k \in 1..window |->
                                 inverse_transform(scaler_y, preds[st - window + k])]
         IN  IF st >= window
             THEN UpdateRolling(
                      SetSlot(SetSlot(row, Col("roll_mean", "T", "", window),
                                      NpMean(recent_preds)),
                              Col("roll_std", "T", "", window), NpStd(recent_preds)),
                      i + 1, st, preds)
             ELSE UpdateRolling(row, i + 1, st, preds)

\* variant: the time index of the new row is taken from the horizon
ForecastBodyHorizonIndex(ls, fps, st, fw) ==
    LET pred_scaled == Predict(model, ls)
        preds == Append(fps, pred_scaled)
        new_row_scaled == ls[Len(ls)]
        new_row_unscaled == [j \in 1..Len(new_row_scaled) |->
                                inverse_transform(scaler_X[j], new_row_scaled[j])]
        future_idx == last_index + fw
        row4 == UpdateCycles(new_row_unscaled, 1, future_idx)
        row5 == UpdateRolling(UpdateLags(row4, 1, st, preds), 1, st, preds)
        new_row_scaled_updated == [j \in 1..Len(row5) |-> transform(scaler_X[j], row5[j])]
    IN  [last_seq |-> Append(Tail(ls), new_row_scaled_updated),
         future_preds_scaled |-> preds,
         new_row |-> row5]

\* one iteration of `for step in range(1, FORECAST_WINDOW + 1)` on the window ls
\* with the predictions fps made so far; fw is FORECAST_WINDOW
ForecastBody(ls, fps, st, fw) ==
    LET pred_scaled == Predict(model, ls)
        preds == Append(fps, pred_scaled)
        new_row_scaled == ls[Len(ls)]
        new_row_unscaled == [j \in 1..Len(new_row_scaled) |->
                                inverse_transform(scaler_X[j], new_row_scaled[j])]
        future_idx == last_index + st
        row4 == UpdateCycles(new_row_unscaled, 1, future_idx)
        row5 == UpdateRolling(UpdateLags(row4, 1, st, preds), 1, st, preds)
        new_row_scaled_updated == [j \in 1..Len(row5) |-> transform(scaler_X[j], row5[j])]
    IN  [last_seq |-> Append(Tail(ls), new_row_scaled_updated),
         future_preds_scaled |-> preds,
         new_row |-> row5]

\* variant: range(1, FORECAST_WINDOW)
LoopStopsEarly(st, fw) == st < fw

\* `step in range(1, FORECAST_WINDOW + 1)`: the loop runs iteration st
LoopContinues(st, fw) == st <= fw

\* variant: the forecast block is printed inside the loop, once per iteration
ForecastStepEmitting ==
    /\ pc = "forecast"
    /\ LoopContinues(step, FORECAST_WINDOW)
    /\ LET r == ForecastBody(last_seq, future_preds_scaled, step, FORECAST_WINDOW)
           future_preds == [i \in 1..Len(r.future_preds_scaled) |->
                              inverse_transform(scaler_y, r.future_preds_scaled[i])]
       IN  /\ last_seq' = r.last_seq
           /\ future_preds_scaled' = r.future_preds_scaled
           /\ new_rows' = Append(new_rows, r.new_row)
           /\ output' = Append(output,
                             [predictions |-> [i \in 1..Len(future_preds) |->
                                                  [step |-> i, value |-> future_preds[i]]],
                              metrics |-> metrics,
                              modelType |-> model_type,
                              forecastWindow |-> FORECAST_WINDOW,
                              timeScale |-> TIME_SCALE])
    /\ step' = step + 1
    /\ UNCHANGED <<pc, exit_code, inputVars, featVars, df, selVars, encVars, seqVars,
                   split_idx, trainVars, last_index, col_indices, shadow>>

\* one iteration of the forecast loop of the script
ForecastStep ==
    /\ pc = "forecast"
    /\ LoopContinues(step, FORECAST_WINDOW)
    /\ LET r == ForecastBody(last_seq, future_preds_scaled, step, FORECAST_WINDOW)
       IN  /\ last_seq' = r.last_seq
           /\ future_preds_scaled' = r.future_preds_scaled
           /\ new_rows' = Append(new_rows, r.new_row)
    /\ step' = step + 1
    /\ UNCHANGED <<pc, exit_code, inputVars, featVars, df, selVars, encVars, seqVars,
                   split_idx, trainVars, last_index, col_indices, output, shadow>>

\* the same loop run for the horizon shadow.FORECAST_WINDOW
ShadowStep ==
    /\ pc \in {"forecast", "done"}
    /\ shadow.active
    /\ LoopContinues(shadow.step, shadow.FORECAST_WINDOW)
    /\ LET r == ForecastBody(shadow.last_seq, shadow.future_preds_scaled,
                             shadow.step, shadow.FORECAST_WINDOW)
       IN  shadow' = [shadow EXCEPT !.last_seq = r.last_seq,
                                    !.future_preds_scaled = r.future_preds_scaled,
                                    !.step = shadow.step + 1]
    /\ UNCHANGED <<pc, exit_code, inputVars, featVars, df, selVars, encVars, seqVars,
                   split_idx, trainVars, loopVars, output>>

\* variant: the inverse-scaled deviation is exported with its offset
ConfScaledWithOffset(sc, dev) == inverse_transform(sc, dev)

\* zero_point, conf_magnitude and conf_scaled = conf_magnitude - zero_point
ConfScaled(sc, dev) ==
    LET zero_point == inverse_transform(sc, R(0))
        conf_magnitude == inverse_transform(sc, dev)
    IN  RSub(conf_magnitude, zero_point)

\* variant: the upper bound adds the half-width twice
PredictionsWideUpper(future_preds, conf_scaled) ==
    [i \in 1..Len(future_preds) |->
        [step |-> i,
         value |-> future_preds[i],
         confidence |-> conf_scaled,
         lowerBound |-> RSub(future_preds[i], conf_scaled),
         upperBound |-> RAdd(RAdd(future_preds[i], conf_scaled), conf_scaled)]]

\* the list `predictions` of the forecast block
Predictions(future_preds, conf_scaled) ==
    [i \in 1..Len(future_preds) |->
        [step |-> i,
         value |-> future_preds[i],
         confidence |-> conf_scaled,
         lowerBound |-> RSub(future_preds[i], conf_scaled),
         upperBound |-> RAdd(future_preds[i], conf_scaled)]]

\* variant: an empty list of predictions is inverse-scaled to an empty list
EmitForecastEmpty ==
    /\ pc = "forecast"
    /\ ~LoopContinues(step, FORECAST_WINDOW)
    /\ LET future_preds == [i \in 1..Len(future_preds_scaled) |->
                              inverse_transform(scaler_y, future_preds_scaled[i])]
           conf_scaled == ConfScaled(scaler_y, conf_val)
       IN  output' = <<[predictions |-> Predictions(future_preds, conf_scaled),
                        metrics |-> metrics,
                        modelType |-> model_type,
                        forecastWindow |-> FORECAST_WINDOW,
                        timeScale |-> TIME_SCALE]>>
    /\ pc' = "done"
    /\ exit_code' = 0
    /\ UNCHANGED <<inputVars, featVars, df, selVars, encVars, seqVars, split_idx,
                   trainVars, loopVars, shadow>>

\* after the loop: inverse-scale the predictions, attach the confidence
\* half-width and print the forecast block; the script then ends.
\* scaler_y.inverse_transform raises on an array of 0 samples, and the
\* exception hook exits with status 1.
EmitForecast ==
    /\ pc = "forecast"
    /\ ~LoopContinues(step, FORECAST_WINDOW)
    /\ IF future_preds_scaled = <<>>
       THEN pc' = "exit" /\ exit_code' = 1 /\ UNCHANGED output
       ELSE /\ LET future_preds == [i \in 1..Len(future_preds_scaled) |->
                                      inverse_transform(scaler_y, future_preds_scaled[i])]
                   conf_scaled == ConfScaled(scaler_y, conf_val)
               IN  output' = <<[predictions |-> Predictions(future_preds, conf_scaled),
                                metrics |-> metrics,
                                modelType |-> model_type,
                                forecastWindow |-> FORECAST_WINDOW,
                                timeScale |-> TIME_SCALE]>>
            /\ pc' = "done"
            /\ exit_code' = 0
    /\ UNCHANGED <<inputVars, featVars, df, selVars, encVars, seqVars, split_idx,
                   trainVars, loopVars, shadow>>

(***************************************************************************)
(* Initial states and specifications                                       *)
(***************************************************************************)
NoShadow == [active |-> FALSE, FORECAST_WINDOW |-> 0, step |-> 0,
             last_seq |-> <<>>, future_preds_scaled |-> <<>>]

\* nothing computed yet: the variables of the sections that have not run
StartTable ==
    /\ exit_code = -1
    /\ DATA_TIME_STEP = "" /\ ENABLED_CYCLES = <<>>
    /\ df_columns = (IF series = "absent" THEN <<>> ELSE <<target_column>>)
                    \o [i \in 1..Len(csv_extra) |-> Col("col", csv_extra[i], "", 0)]
    /\ df = [i \in 1..raw_rows |-> [orig |-> i - 1, index |-> i - 1]]
    /\ feature_columns = <<>>
    /\ est_train_size = R(0) /\ model_type = "" /\ MAX_OH_CATS = 0
    /\ numeric_features = <<>> /\ categorical_features = <<>>
    /\ df_encoded = <<>> /\ X = <<>>
    /\ scaler_X = <<>> /\ scaler_y = NoFit

StartSequences ==
    /\ X_seq = <<>> /\ y_seq = <<>> /\ data_was_augmented = FALSE
    /\ initial_samples = 0
    /\ split_idx = 0

StartTraining ==
    /\ cv = -1 /\ model = "" /\ conf_val = R(0) /\ metrics = <<>>
    /\ last_seq = <<>> /\ future_preds_scaled = <<>> /\ step = 0
    /\ last_index = 0 /\ col_indices = <<>> /\ new_rows = <<>>
    /\ output = <<>>

StartModel ==
    /\ StartTraining
    /\ squares = <<>> /\ diagnosis = ""

\* the state of the script before its first section, for the given inputs
Start ==
    /\ StartTable
    /\ SEQ_LEN = 0 /\ stride = 0
    /\ StartSequences
    /\ StartModel

\* the kinds of dataset the runs are drawn from
Profiles ==
    {[series |-> "saw", TIME_SCALE |-> ts, csv_extra |-> <<>>] : ts \in TimeScales}
    \cup {[series |-> "flat", TIME_SCALE |-> "Weekly", csv_extra |-> <<>>]}
    \cup {[series |-> "saw", TIME_SCALE |-> "Weekly", csv_extra |-> e] : e \in CsvExtras}

\* datasets whose target column is incomplete, not numeric or not there
DirtyProfiles ==
    {[series |-> k, TIME_SCALE |-> "Daily", csv_extra |-> <<>>] :
        k \in {"gap", "nan", "typo", "text"}}
    \cup {[series |-> "absent", TIME_SCALE |-> "Daily", csv_extra |-> <<"xnum">>]}

\* the whole script on small tables (one table large enough for the LSTM, one
\* large enough for the tier without augmentation), every kind of dataset and
\* every horizon
Init ==
    /\ \/ /\ pc = "features"
          /\ \/ /\ raw_rows \in {0} \cup (FewRows..SmallRows)
                /\ \E p \in Profiles :
                      series = p.series /\ TIME_SCALE = p.TIME_SCALE
                      /\ csv_extra = p.csv_extra
                /\ FORECAST_WINDOW \in Horizons
             \/ /\ raw_rows = LargeRows
                /\ series = "saw" /\ TIME_SCALE = "Daily" /\ csv_extra = <<>>
                /\ FORECAST_WINDOW = 1
             \/ /\ raw_rows \in {1, SmallRows - 1, SmallRows}
                /\ \E p \in DirtyProfiles :
                      series = p.series /\ TIME_SCALE = p.TIME_SCALE
                      /\ csv_extra = p.csv_extra
                /\ FORECAST_WINDOW \in {0, 3}
             \/ /\ raw_rows = PlainRows
                /\ series \in {"saw", "flat"}
                /\ TIME_SCALE = "Daily" /\ csv_extra = <<>>
                /\ FORECAST_WINDOW = 1
       \/ /\ pc = "load"
          /\ \/ series = "missing" /\ raw_rows = 0
             \/ series = "saw" /\ raw_rows = SmallRows
          /\ TIME_SCALE = "Daily" /\ csv_extra = <<>>
          /\ FORECAST_WINDOW = 3
    /\ shadow = NoShadow
    /\ Start

SelectModel == SelectModelAt("select", "encode")

CreateSequences == CreateSequencesAt("sequences", "split")

TrainTestSplit == TrainTestSplitAt("split", "train")

Train == TrainAt("train", "evaluate")

Next ==
    \/ LoadCsv
    \/ FeatureEngineering
    \/ DropNaTarget
    \/ SelectModel
    \/ CleanAndEncode
    \/ CreateSequences
    \/ TrainTestSplit
    \/ Train
    \/ Evaluate
    \/ ForecastInit
    \/ ForecastStep
    \/ EmitForecast

Spec == Init /\ [][Next]_vars

\* Sections 3.5, 4, 5 and 7 depend on the table only through its cleaned row
\* count: SpecRows applies them, in script order, to every row count.
InitRows ==
    /\ pc = "rows_select"
    /\ raw_rows \in 1..MaxRows
    /\ series = "saw" /\ csv_extra = <<>> /\ TIME_SCALE = "Daily"
    /\ FORECAST_WINDOW = 1
    /\ shadow = NoShadow
    /\ Start

RowsSelectModel == SelectModelAt("rows_select", "rows_sequences")

RowsCreateSequences == CreateSequencesAt("rows_sequences", "rows_split")

RowsTrainTestSplit == TrainTestSplitAt("rows_split", "rows_train")

RowsTrain == TrainAt("rows_train", "rows_trained")

NextRows ==
    \/ RowsSelectModel
    \/ RowsCreateSequences
    \/ RowsTrainTestSplit
    \/ RowsTrain

SpecRows == InitRows /\ [][NextRows]_vars

\* the model diagnosis on its own: every combination of a training error, a
\* test error and a spread of the training target
TrainMse == {R(0), <<1, 4>>, <<16, 25>>, R(1), R(4)}

TestMse == {R(0), <<1, 4>>, <<16, 25>>, R(1), <<9, 4>>, R(4)}

YTrainVar == {R(0), R(1), R(4), R(25)}

InitDiag ==
    /\ pc = "diagnose"
    /\ raw_rows = SmallRows
    /\ series = "saw" /\ csv_extra = <<>> /\ TIME_SCALE = "Daily"
    /\ FORECAST_WINDOW = 1
    /\ shadow = NoShadow
    /\ SEQ_LEN = 0 /\ stride = 0
    /\ StartTable /\ StartSequences /\ StartTraining
    /\ squares \in [train_mse : TrainMse, test_mse : TestMse, y_train_var : YTrainVar]
    /\ diagnosis = ""

NextDiag == Diagnose

SpecDiag == InitDiag /\ [][NextDiag]_vars

\* The sequence builders as functions of the row count, the window length and
\* the stride: SpecSeq applies each of them to every input within the bounds.
InitSeq ==
    /\ pc = "seq"
    /\ raw_rows \in 0..SeqRows
    /\ SEQ_LEN \in 0..SeqMaxLen
    /\ stride \in 1..SeqMaxStride
    /\ series = "saw" /\ csv_extra = <<>> /\ TIME_SCALE = "Daily"
    /\ FORECAST_WINDOW = 1
    /\ shadow = NoShadow
    /\ StartTable /\ StartSequences /\ StartModel

SeqWithStride ==
    /\ pc = "seq"
    /\ LET r == create_sequences_with_stride(raw_rows, SEQ_LEN, stride)
       IN  X_seq' = r[1] /\ y_seq' = r[2]
    /\ pc' = "seq_stride"
    /\ UNCHANGED <<exit_code, inputVars, featVars, df, selVars, encVars, SEQ_LEN,
                   initial_samples, stride, data_was_augmented, split_idx,
                   trainVars, loopVars, output, shadow>>

SeqSvr ==
    /\ pc = "seq"
    /\ LET r == create_sequences_svr(raw_rows, SEQ_LEN)
       IN  X_seq' = r[1] /\ y_seq' = r[2]
    /\ pc' = "seq_svr"
    /\ UNCHANGED <<exit_code, inputVars, featVars, df, selVars, encVars, SEQ_LEN,
                   initial_samples, stride, data_was_augmented, split_idx,
                   trainVars, loopVars, output, shadow>>

NextSeq == SeqWithStride \/ SeqSvr

SpecSeq == InitSeq /\ [][NextSeq]_vars

\* Two forecast runs of one fitted state, for the horizons FORECAST_WINDOW and
\* shadow.FORECAST_WINDOW: the runs share the table, the scalers and the model.
InitPair ==
    /\ pc = "load"
    /\ raw_rows = SmallRows
    /\ series = "saw" /\ csv_extra = <<>>
    /\ TIME_SCALE \in TimeScales
    /\ FORECAST_WINDOW \in {1, 3}
    /\ \E h \in {3, MaxHorizon} :
          shadow = [NoShadow EXCEPT !.active = TRUE, !.FORECAST_WINDOW = h]
    /\ Start

NextPair == Next \/ ShadowStep

SpecPair == InitPair /\ [][NextPair]_vars

(***************************************************************************)
(* The copy of the script in src/AI_Model: fixed horizon and time scale,   *)
(* no lag features, rows with any NaN dropped, no validation of the table, *)
(* a forecast loop that refreshes the cyclical slots only, no JSON block   *)
(***************************************************************************)
\* FORECAST_WINDOW = 30
NotebookForecastWindow == 30

\* feature engineering with ENABLE_LAG_FEATURES = False and
\* ENABLE_ROLLING_FEATURES = True
NbFeatureEngineering ==
    /\ pc = "features"
    /\ LET ts    == TimeStepOf(TIME_SCALE)
           cyc   == CyclesOf(TIME_SCALE)
           cols1 == df_columns \o add_cyclical_features(ts, cyc)
           fc1   == feature_columns
                    \o Flatten([i \in 1..Len(cyc) |-> CycleCols(cyc[i])])
           rollsrc == SelectSeq(<<target_column>> \o fc1,
                          LAMBDA c : IsNumericBeforeCoercion(series, c)
                                     /\ ~HasLagInName(c) /\ ~HasRollInName(c))
           cols3 == cols1 \o RollCols(SelectSeq(rollsrc, LAMBDA c : InSeq(c, cols1)))
           fc3   == fc1 \o SelectSeq(cols3, HasRollInName)
       IN  /\ DATA_TIME_STEP' = ts
           /\ ENABLED_CYCLES' = cyc
           /\ df_columns' = cols3
           /\ feature_columns' = SelectSeq(Dedup(fc3), LAMBDA c : InSeq(c, cols3))
    /\ pc' = "dropna"
    /\ UNCHANGED <<exit_code, inputVars, df, selVars, encVars, seqVars, split_idx,
                   trainVars, loopVars, output, shadow>>

\* no cell of raw row r is NaN (a text cell of the target is not NaN)
NbRowComplete(cols, r) ==
    \A i \in 1..Len(cols) :
        IF cols[i] = target_column THEN ~TargetMissing(series, r)
        ELSE ~IsNaN(RawVal(series, DATA_TIME_STEP, cols[i], r))

\* df = df.dropna().reset_index(drop=True)
NbDropNa ==
    /\ pc = "dropna"
    /\ LET kept == SelectSeq(df, LAMBDA row : NbRowComplete(df_columns, row.orig))
       IN  df' = [i \in 1..Len(kept) |-> [orig |-> kept[i].orig, index |-> i - 1]]
    /\ pc' = "select"
    /\ UNCHANGED <<exit_code, inputVars, featVars, selVars, encVars, seqVars,
                   split_idx, trainVars, loopVars, output, shadow>>

\* coercion of the target, encoding, X = pd.concat([X_numeric, df_encoded]);
\* MinMaxScaler.fit_transform raises on a table without rows or columns
NbCleanAndEncode ==
    /\ pc = "encode"
    /\ LET kept == SelectSeq(df, LAMBDA row : ~TargetNotNumeric(series, row.orig))
           num == SelectSeq(feature_columns, IsNumericDtype)
           cat == SelectSeq(feature_columns, LAMBDA c : ~IsNumericDtype(c))
           enc == get_dummies(cat, kept, MAX_OH_CATS)
           Xc  == BuildX(num, enc, Len(kept))
       IN  /\ df' = kept
           /\ numeric_features' = num
           /\ categorical_features' = cat
           /\ df_encoded' = enc
           /\ X' = Xc
           /\ IF Len(kept) = 0 \/ Xc = <<>>
              THEN /\ pc' = "exit" /\ exit_code' = 1
                   /\ UNCHANGED <<scaler_X, scaler_y>>
              ELSE /\ scaler_X' = [j \in 1..Len(Xc) |->
                          FitColumn(series, DATA_TIME_STEP, Xc[j], kept)]
                   /\ scaler_y' = FitColumn(series, DATA_TIME_STEP,
                                            target_column, kept)
                   /\ pc' = "sequences" /\ UNCHANGED exit_code
    /\ UNCHANGED <<inputVars, featVars, selVars, seqVars, split_idx,
                   trainVars, loopVars, output, shadow>>

\* one iteration of the loop: steps 1-4, 6 and 7; step 5 is a comment
NbForecastBody(ls, fps, st) ==
    LET pred_scaled == Predict(model, ls)
        new_row_scaled == ls[Len(ls)]
        new_row_unscaled == [j \in 1..Len(new_row_scaled) |->
                                inverse_transform(scaler_X[j], new_row_scaled[j])]
        future_idx == last_index + st
        row4 == UpdateCycles(new_row_unscaled, 1, future_idx)
        new_row_scaled_updated == [j \in 1..Len(row4) |-> transform(scaler_X[j], row4[j])]
    IN  [last_seq |-> Append(Tail(ls), new_row_scaled_updated),
         future_preds_scaled |-> Append(fps, pred_scaled),
         new_row |-> row4]

NbForecastStep ==
    /\ pc = "forecast"
    /\ LoopContinues(step, FORECAST_WINDOW)
    /\ LET r == NbForecastBody(last_seq, future_preds_scaled, step)
       IN  /\ last_seq' = r.last_seq
           /\ future_preds_scaled' = r.future_preds_scaled
           /\ new_rows' = Append(new_rows, r.new_row)
    /\ step' = step + 1
    /\ UNCHANGED <<pc, exit_code, inputVars, featVars, df, selVars, encVars, seqVars,
                   split_idx, trainVars, last_index, col_indices, output, shadow>>

\* after the loop the predictions are inverse-scaled and printed as text; the
\* script ends without a JSON block
NbFinish ==
    /\ pc = "forecast"
    /\ ~LoopContinues(step, FORECAST_WINDOW)
    /\ IF future_preds_scaled = <<>>
       THEN pc' = "exit" /\ exit_code' = 1
       ELSE pc' = "done" /\ exit_code' = 0
    /\ UNCHANGED <<inputVars, featVars, df, selVars, encVars, seqVars, split_idx,
                   trainVars, loopVars, output, shadow>>

\* the copy run on tables that hold the target column
InitNotebook ==
    /\ pc = "features"
    /\ raw_rows \in ((SmallRows + 2)..(SmallRows + 6)) \cup {LargeRows}
    /\ series \in {"saw", "flat", "gap", "typo"}
    /\ csv_extra = <<>>
    /\ TIME_SCALE = "Daily"
    /\ FORECAST_WINDOW = NotebookForecastWindow
    /\ shadow = NoShadow
    /\ Start

NextNotebook ==
    \/ NbFeatureEngineering
    \/ NbDropNa
    \/ SelectModel
    \/ NbCleanAndEncode
    \/ CreateSequences
    \/ TrainTestSplit
    \/ Train
    \/ Evaluate
    \/ ForecastInit
    \/ NbForecastStep
    \/ NbFinish

SpecNotebook == InitNotebook /\ [][NextNotebook]_vars

(***************************************************************************)
(* Properties                                                              *)
(***************************************************************************)

\* C1: in every example of create_sequences_with_stride and of
\* create_sequences_svr the label row lies strictly after every row of the
\* example's window, for every row count, window length and stride >= 1.
C1_LabelAfterWindow ==
    /\ Len(y_seq) = Len(X_seq)
    /\ \A k \in 1..Len(X_seq) :
          \A r \in X_seq[k].lo..(X_seq[k].hi - 1) : r < y_seq[k].row

C1_Witness ==
    /\ pc = "seq_stride"
    /\ stride = 3 /\ SEQ_LEN = 2
    /\ Len(X_seq) >= 3
    /\ y_seq[2].row = 5

\* C2: after the split the training part is the first 80% of the examples,
\* every test label row is later than every training label row, and no test
\* example has the window of a training example.
C2_TemporalHoldout ==
    pc \in {"train", "forecast_init", "forecast", "done", "rows_train", "rows_trained"} =>
        /\ split_idx = (4 * Len(X_seq)) \div 5
        /\ \A i \in 1..split_idx : \A j \in (split_idx + 1)..Len(X_seq) :
              /\ y_seq[i].row < y_seq[j].row
              /\ <<X_seq[i].lo, X_seq[i].hi>> # <<X_seq[j].lo, X_seq[j].hi>>

\* C3: with s = n - min(20, n div 5) the estimate is 12s/5 for s < 100,
\* 8s/15 for 100 <= s < 300 and 4s/5 for s >= 300; SVR is selected exactly
\* when the estimate is below 150 (149 gives SVR, 150 gives LSTM); the one-hot
\* cap is 20 for SVR and 50 for LSTM.
C3_SelectionFunction ==
    /\ ModelTypeFor(R(149)) = "SVR" /\ ModelTypeFor(R(150)) = "LSTM"
    /\ model_type # "" =>
          LET n   == Len(df)
              s   == n - (IF n \div 5 < 20 THEN n \div 5 ELSE 20)
              num == IF s < 100 THEN 12 * s ELSE IF s < 300 THEN 8 * s ELSE 4 * s
              den == IF s < 100 THEN 5 ELSE IF s < 300 THEN 15 ELSE 5
          IN  /\ est_train_size[1] * den = num * est_train_size[2]
              /\ est_train_size[2] > 0
              /\ model_type \in {"SVR", "LSTM"}
              /\ (model_type = "SVR") <=> (num < 150 * den)
              /\ MAX_OH_CATS = IF model_type = "SVR" THEN 20 ELSE 50

C3_Witness ==
    /\ pc = "rows_sequences"
    /\ Len(df) = 301
    /\ model_type = "SVR" /\ MAX_OH_CATS = 20

\* C4 as stated: with at least 300 cleaned rows the estimate is at least 150
\* and LSTM is selected.
C4_LstmFrom300 ==
    (model_type # "" /\ Len(df) >= 300) =>
        /\ ~RLt(est_train_size, R(150))
        /\ model_type = "LSTM"

\* C4: with at least 302 cleaned rows the estimate is at least 150 and LSTM
\* is selected; a table of 400 rows selects LSTM.
C4_LstmFrom302 ==
    /\ (model_type # "" /\ Len(df) >= 302) =>
          /\ ~RLt(est_train_size, R(150))
          /\ model_type = "LSTM"
    /\ (model_type # "" /\ Len(df) = 400) => model_type = "LSTM"

C4_Witness ==
    /\ pc = "rows_sequences"
    /\ Len(df) = 400
    /\ model_type = "LSTM"

\* C5: on the SVR path the number of cross-validation folds is
\* train_size div 10 clamped to 2..3, never 0 or 1.
C5_ClampedFolds ==
    cv # -1 =>
        /\ cv \in {2, 3}
        /\ cv = (IF split_idx \div 10 < 2 THEN 2
                 ELSE IF split_idx \div 10 > 3 THEN 3 ELSE split_idx \div 10)

C7_ForecastCount ==
    /\ (pc = "done" \/ exit_code = 0) => output # <<>>
    /\ output # <<>> =>
          LET p == output[1].predictions
          IN  /\ exit_code = 0
              /\ Len(p) = FORECAST_WINDOW
              /\ output[1].forecastWindow = Len(p)
              /\ \A i \in 1..Len(p) :
                    /\ p[i].step = i
                    /\ p[i].value = inverse_transform(scaler_y, future_preds_scaled[i])

C7_Witness ==
    /\ pc = "done"
    /\ FORECAST_WINDOW = MaxHorizon
    /\ Len(output[1].predictions) = MaxHorizon
    /\ output[1].predictions[MaxHorizon].step = MaxHorizon

C9_Lag1Feedback ==
    (pc \in {"forecast", "done"} /\ Col("lag", "T", "", 1) \in DOMAIN col_indices) =>
        LET j == col_indices[Col("lag", "T", "", 1)] + 1
        IN  /\ X[j] = Col("lag", "T", "", 1)
            /\ Len(new_rows) = Len(future_preds_scaled)
            /\ \A s \in 1..Len(new_rows) :
                  new_rows[s][j] = inverse_transform(scaler_y, future_preds_scaled[s])
            /\ Len(new_rows) >= 1 =>
                  inverse_transform(scaler_X[j], last_seq[Len(last_seq)][j])
                      = inverse_transform(scaler_y,
                                          future_preds_scaled[Len(future_preds_scaled)])

C9_Witness ==
    /\ pc = "forecast"
    /\ model = "echo"
    /\ Col("lag", "T", "", 1) \in DOMAIN col_indices
    /\ Len(new_rows) = 2
    /\ new_rows[1][col_indices[Col("lag", "T", "", 1)] + 1]
          # new_rows[2][col_indices[Col("lag", "T", "", 1)] + 1]

\* C10: col_indices gives every feature name the position the name has in the
\* matrix X the scaler was fitted on, whatever numeric and categorical
\* features are present.
C10_ColumnPositions ==
    pc \in {"forecast", "done"} =>
        /\ Len(scaler_X) = Len(X)
        /\ DOMAIN col_indices = {X[j] : j \in 1..Len(X)}
        /\ \A name \in DOMAIN col_indices :
              /\ col_indices[name] + 1 \in 1..Len(X)
              /\ X[col_indices[name] + 1] = name

C10_Witness ==
    /\ pc = "forecast"
    /\ csv_extra = <<"xcat3", "xnum">>
    /\ numeric_features # <<>>
    /\ df_encoded # <<>>
    /\ col_indices[df_encoded[1]] = Len(numeric_features)

C12_RangeTimesDeviation ==
    output # <<>> =>
        \A i \in 1..Len(output[1].predictions) :
            output[1].predictions[i].confidence
                = RMul(conf_val, RSub(scaler_y.data_max, scaler_y.data_min))

\* C12: the printed confidence is the residual deviation times
\* (data_max - data_min) of the target scaler, and the residual deviation
\* itself when the target is constant (data_max = data_min); data_min is never
\* added; for data_min 10, data_max 20 and deviation 0.1 it is 1.
C12_ConfidenceMagnitude ==
    /\ ConfScaled(Fitted(R(10), R(20)), <<1, 10>>) = R(1)
    /\ output # <<>> =>
          \A i \in 1..Len(output[1].predictions) :
              output[1].predictions[i].confidence
                  = IF scaler_y.data_max = scaler_y.data_min
                    THEN conf_val
                    ELSE RMul(conf_val, RSub(scaler_y.data_max, scaler_y.data_min))

C12_Witness ==
    /\ output # <<>>
    /\ series = "saw"
    /\ conf_val = <<1, 10>>
    /\ scaler_y.data_min = R(10)
    /\ scaler_y.data_max = R(20)
    /\ output[1].predictions[1].confidence = R(1)

\* C13: when no row is left after dropping the rows with a missing target,
\* or after coercing the target to numbers, the run has exited with status 1,
\* no scaler is fitted, no model is trained and nothing is printed.
C13_NoRowsFatal ==
    /\ (Len(df) = 0 /\ pc \notin {"load", "features", "dropna"}) =>
          /\ pc = "exit" /\ exit_code = 1
          /\ scaler_X = <<>> /\ scaler_y = NoFit
          /\ X_seq = <<>> /\ model = ""
          /\ output = <<>>
    /\ (scaler_X # <<>> \/ model # "" \/ output # <<>>) => Len(df) > 0

C13_Witness ==
    /\ pc = "exit" /\ exit_code = 1
    /\ series = "text"
    /\ raw_rows = SmallRows
    /\ Len(df) = 0
    /\ model_type # ""

\* C14: a run whose target column is not in the dataset, and a run whose
\* FORECAST_WINDOW is not positive, never prints a forecast block and never
\* ends with status 0; the first exits with status 1 before any feature is
\* made, the second exits with status 1 at the end of the (empty) loop.
C14_ConfigErrorsFatal ==
    /\ [](/\ (series = "absent" /\ pc # "features") =>
                /\ pc = "exit" /\ exit_code = 1
                /\ feature_columns = <<>> /\ model_type = ""
          /\ (series = "absent" \/ FORECAST_WINDOW <= 0) =>
                /\ output = <<>>
                /\ exit_code \in {-1, 1}
                /\ pc # "done"
                /\ future_preds_scaled = <<>>)
    /\ [][(FORECAST_WINDOW <= 0 /\ pc = "forecast") =>
             (pc' = "exit" /\ exit_code' = 1)]_vars

C14_Witness ==
    /\ pc = "exit" /\ exit_code = 1
    /\ FORECAST_WINDOW = -1
    /\ model # ""
    /\ last_seq # <<>>

\* C16: the time-step unit is the one of the time scale (Daily - days,
\* Weekly - weeks, Monthly - months, Quarterly - quarters, Yearly - years,
\* Hourly - hours), every enabled cycle has a period in that row of the table,
\* and the cyclical slots of the forecast rows use that period.
C16_PeriodTableRow ==
    LET unit == IF TIME_SCALE = "Daily" THEN "days"
                ELSE IF TIME_SCALE = "Weekly" THEN "weeks"
                ELSE IF TIME_SCALE = "Monthly" THEN "months"
                ELSE IF TIME_SCALE = "Quarterly" THEN "quarters"
                ELSE IF TIME_SCALE = "Yearly" THEN "years"
                ELSE "hours"
    IN  DATA_TIME_STEP # "" =>
           /\ DATA_TIME_STEP = unit
           /\ \A i \in 1..Len(ENABLED_CYCLES) :
                 ENABLED_CYCLES[i] \in DOMAIN get_cycle_periods(unit)
           /\ \A s \in 1..Len(new_rows) : \A i \in 1..Len(ENABLED_CYCLES) :
                 LET name == Col("col", "sin", ENABLED_CYCLES[i], 0)
                 IN  (name \in DOMAIN col_indices
                        /\ ENABLED_CYCLES[i] \in DOMAIN get_cycle_periods(unit)) =>
                       new_rows[s][col_indices[name] + 1]
                           = R(CyclePhase(last_index + s,
                                          get_cycle_periods(unit)[ENABLED_CYCLES[i]]))

\* C17: in the row appended at step s the sin / cos slots of every enabled
\* cycle are computed at the index of the last historical row, as used for
\* that row's own cyclical features, plus s.
C17_PhaseContinues ==
    pc \in {"forecast", "done"} =>
        \A s \in 1..Len(new_rows) : \A i \in 1..Len(ENABLED_CYCLES) :
            \A fn \in {"sin", "cos"} :
                LET name == Col("col", fn, ENABLED_CYCLES[i], 0)
                IN  name \in DOMAIN col_indices =>
                       new_rows[s][col_indices[name] + 1]
                           = R(CyclePhase(df[Len(df)].orig + s,
                                   get_cycle_periods(DATA_TIME_STEP)[ENABLED_CYCLES[i]]))

\* C18: for k in {3, 7} with the target's lag-k column among the features,
\* the row appended at step s holds in the lag-k slot the inverse-scaled
\* prediction of step s - k when s > k, and the lag-k value of the last
\* historical row when s <= k.
C18_LagHistory ==
    pc \in {"forecast", "done"} =>
        \A k \in {3, 7} :
            Col("lag", "T", "", k) \in DOMAIN col_indices =>
                LET j == col_indices[Col("lag", "T", "", k)] + 1
                IN  \A s \in 1..Len(new_rows) :
                        new_rows[s][j] =
                            IF s > k
                            THEN inverse_transform(scaler_y, future_preds_scaled[s - k])
                            ELSE inverse_transform(scaler_X[j], ScaledRow(Len(df))[j])

C18_Witness ==
    /\ pc = "forecast"
    /\ model = "echo"
    /\ Col("lag", "T", "", 7) \in DOMAIN col_indices
    /\ Col("lag", "T", "", 3) \in DOMAIN col_indices
    /\ Len(new_rows) = MaxHorizon
    /\ LET j7 == col_indices[Col("lag", "T", "", 7)] + 1
           j3 == col_indices[Col("lag", "T", "", 3)] + 1
       IN  /\ new_rows[MaxHorizon][j7] # new_rows[7][j7]
           /\ new_rows[4][j3] # new_rows[3][j3]

\* C20: create_sequences_with_stride returns one example for each
\* i in {0, stride, 2 * stride, ...} with i < n_rows - W, in increasing i;
\* the example of i has the window of rows [i, i + W) and the label row
\* i + W, so there are ceil((n_rows - W) / stride) examples (none when
\* n_rows <= W).
C20_StrideExamples ==
    pc = "seq_stride" =>
        LET starts == {i \in 0..raw_rows : i % stride = 0 /\ i < raw_rows - SEQ_LEN}
            count  == Len(X_seq)
        IN  /\ count = Cardinality(starts)
            /\ Len(y_seq) = count
            /\ \A k \in 1..count :
                  /\ X_seq[k].lo = (k - 1) * stride
                  /\ X_seq[k].lo \in starts
                  /\ X_seq[k].hi = X_seq[k].lo + SEQ_LEN
                  /\ X_seq[k].hi <= raw_rows - 1
                  /\ y_seq[k].row = X_seq[k].lo + SEQ_LEN
                  /\ ~X_seq[k].jit /\ ~y_seq[k].jit
            /\ \A i \in starts : \E k \in 1..count : X_seq[k].lo = i
            /\ IF raw_rows <= SEQ_LEN THEN count = 0
               ELSE /\ count * stride >= raw_rows - SEQ_LEN
                    /\ (count - 1) * stride < raw_rows - SEQ_LEN

C20_Witness ==
    /\ pc = "seq_stride"
    /\ raw_rows = SeqRows /\ SEQ_LEN = 2 /\ stride = 3
    /\ Len(X_seq) = 4
    /\ X_seq[4].lo = 9 /\ y_seq[4].row = 11

\* C19: for w in {3, 7} with the target's rolling columns among the features,
\* the row appended at step s holds in the rolling-mean and rolling-std slots
\* the mean and the deviation of the predictions of steps s - w + 1 .. s when
\* s >= w, and the values of the last historical row when s < w; in both
\* copies of the script.
C19_RollingRecomputed ==
    pc \in {"forecast", "done"} =>
        \A w \in {3, 7} : \A kind \in {"roll_mean", "roll_std"} :
            Col(kind, "T", "", w) \in DOMAIN col_indices =>
                LET j == col_indices[Col(kind, "T", "", w)] + 1
                IN  \A s \in 1..Len(new_rows) :
                        LET recent == [k \in 1..w |->
                                inverse_transform(scaler_y,
                                    future_preds_scaled[s - w + k])]
                        IN  new_rows[s][j] =
                                IF s >= w
                                THEN IF kind = "roll_mean" THEN NpMean(recent)
                                     ELSE NpStd(recent)
                                ELSE inverse_transform(scaler_X[j],
                                                       ScaledRow(Len(df))[j])

\* C15: every number of the forecast block is finite: value, confidence,
\* lowerBound and upperBound of every step, and the eight metrics.
C15_FiniteOutput ==
    output # <<>> =>
        /\ \A i \in 1..Len(output[1].predictions) :
              LET p == output[1].predictions[i]
              IN  /\ IsFinite(p.value) /\ IsFinite(p.confidence)
                  /\ IsFinite(p.lowerBound) /\ IsFinite(p.upperBound)
        /\ \A name \in DOMAIN output[1].metrics : IsFinite(output[1].metrics[name])

\* C21: for every cleaned row count the tier the model selection assumes is
\* the tier the sequence builder applies, the estimate is that tier's
\* multiplier times 0.8 of the estimated samples, and the multiplier is the
\* growth the builder produces (sequences built / initial samples).
C21_TierAgreement ==
    pc \in {"rows_split", "rows_train", "rows_trained"} =>
        LET est  == EstInitialSamples(Len(df))
            tier == TierOf(est)
        IN  /\ est_train_size = RMul(RMul(R(est), EstMultiplier(tier)), <<4, 5>>)
            /\ tier = TierOf(initial_samples)
            /\ R(Len(X_seq)) = RMul(EstMultiplier(tier), R(initial_samples))

\* C22: after augment_with_jittering the first N examples and labels are the
\* N originals of create_sequences_with_stride, unchanged and in order, and
\* positions N + 1 .. 2N hold their jittered copies in the same order.
C22_OriginalsKept ==
    (pc \in {"rows_split", "rows_train", "rows_trained"} /\ data_was_augmented) =>
        LET base == create_sequences_with_stride(Len(df), SEQ_LEN, stride)
            N    == Len(base[1])
        IN  /\ Len(X_seq) = 2 * N /\ Len(y_seq) = 2 * N
            /\ \A k \in 1..N :
                  /\ X_seq[k] = base[1][k] /\ y_seq[k] = base[2][k]
                  /\ ~X_seq[k].jit /\ ~y_seq[k].jit
                  /\ X_seq[N + k] = [base[1][k] EXCEPT !.jit = TRUE]
                  /\ y_seq[N + k] = [base[2][k] EXCEPT !.jit = TRUE]

C22_Witness ==
    /\ pc = "rows_split"
    /\ data_was_augmented
    /\ stride = 3
    /\ Len(X_seq) = 68
    /\ X_seq[34].lo = 99 /\ ~X_seq[34].jit
    /\ X_seq[68].lo = 99 /\ X_seq[68].jit

\* C27: the model type chosen before encoding agrees with the training set
\* built: LSTM exactly when the number of training sequences is at least 150.
C27_TypeMatchesTrainSize ==
    pc \in {"rows_train", "rows_trained"} =>
        (model_type = "LSTM" <=> split_idx >= 150)

\* C28: model selection is monotone in the cleaned row count: when n rows
\* select LSTM, every larger row count selects LSTM.
C28_MonotoneSelection ==
    (pc # "rows_select" /\ model_type = "LSTM") =>
        \A m \in Len(df)..MaxRows : ModelTypeFor(EstTrainSize(m)) = "LSTM"

\* C26: the lag slots of the appended rows are shifts of one series: for
\* every step s > 3 the target's lag-3 slot of the row appended at step s
\* equals the lag-1 slot of the row appended at step s - 2, and for s > 7 the
\* lag-7 slot equals the lag-1 slot of the row appended at step s - 6.
C26_LagShift ==
    pc \in {"forecast", "done"} =>
        \A k \in {3, 7} :
            ({Col("lag", "T", "", 1), Col("lag", "T", "", k)} \subseteq DOMAIN col_indices) =>
                LET j1 == col_indices[Col("lag", "T", "", 1)] + 1
                    jk == col_indices[Col("lag", "T", "", k)] + 1
                IN  \A s \in (k + 1)..Len(new_rows) :
                        new_rows[s][jk] = new_rows[s - (k - 1)][j1]

\* C30: the target's roll_std slot written at a step s >= w holds the sample
\* deviation (divisor w - 1) of the last w predictions, the statistic
\* add_rolling_features computes for the historical rows.
C30_SampleStd ==
    pc \in {"forecast", "done"} =>
        \A w \in {3, 7} :
            Col("roll_std", "T", "", w) \in DOMAIN col_indices =>
                LET j == col_indices[Col("roll_std", "T", "", w)] + 1
                IN  \A s \in w..Len(new_rows) :
                        LET recent == [k \in 1..w |->
                                inverse_transform(scaler_y,
                                    future_preds_scaled[s - w + k])]
                            m  == NpMean(recent)
                            d2 == RSum([i \in 1..w |->
                                      RMul(RSub(recent[i], m), RSub(recent[i], m))])
                        IN  new_rows[s][j] = RDiv(d2, R(w - 1))

\* C25: in every row appended by the forecast loop, each slot that is neither
\* the sin / cos column of an enabled cycle nor a lag / rolling column of the
\* target (exogenous numeric columns, one-hot columns, lag and rolling
\* columns of other columns) holds the physical value of the last historical
\* row.
C25_FrozenSlots ==
    pc \in {"forecast", "done"} =>
        \A s \in 1..Len(new_rows) : \A j \in 1..Len(X) :
            LET c == X[j]
                cyclical == /\ c.kind = "col" /\ c.src \in {"sin", "cos"}
                            /\ InSeq(c.cyc, ENABLED_CYCLES)
                derived  == /\ c.kind \in {"lag", "roll_mean", "roll_std"}
                            /\ c.src = "T"
            IN  ~(cyclical \/ derived) =>
                    new_rows[s][j] = FeatVal(series, DATA_TIME_STEP, c, df, Len(df))

C25_Witness ==
    /\ pc = "forecast"
    /\ model = "echo"
    /\ csv_extra = <<"xcat3", "xnum">>
    /\ Len(new_rows) = 4
    /\ \E j \in 1..Len(X) : X[j].kind = "onehot"
    /\ \E j \in 1..Len(X) :
          /\ X[j] = Col("col", "xnum", "", 0)
          /\ new_rows[4][j] = FeatVal(series, DATA_TIME_STEP, X[j], df, Len(df))
    /\ \E j \in 1..Len(X) :
          /\ X[j] = Col("roll_std", "sin", "yearly", 3)
          /\ new_rows[4][j] = FeatVal(series, DATA_TIME_STEP, X[j], df, Len(df))
    /\ \E j \in 1..Len(X) :
          /\ X[j] = Col("lag", "T", "", 1)
          /\ new_rows[4][j] # FeatVal(series, DATA_TIME_STEP, X[j], df, Len(df))

\* C24: throughout the forecast loop the window last_seq holds exactly
\* W = min(30, n_rows // 5) rows: it starts as the final W rows of the scaled
\* feature matrix, and every iteration drops the oldest row and appends one
\* new row, the scaled row built in that iteration.  The loop is reached only
\* with W >= 1.
C24_WindowLength ==
    /\ [](pc \in {"forecast", "done"} =>
            /\ SEQ_LEN = Min(30, Len(df) \div 5)
            /\ SEQ_LEN >= 1
            /\ Len(last_seq) = SEQ_LEN
            /\ step = 1 =>
                  last_seq = [k \in 1..SEQ_LEN |-> ScaledRow(Len(df) - SEQ_LEN + k)])
    /\ [][(pc = "forecast" /\ step' = step + 1) =>
            /\ Len(last_seq') = Len(last_seq)
            /\ \A k \in 1..(Len(last_seq) - 1) : last_seq'[k] = last_seq[k + 1]
            /\ Len(new_rows') = Len(new_rows) + 1
            /\ last_seq'[Len(last_seq)] =
                  [j \in 1..Len(X) |->
                      transform(scaler_X[j], new_rows'[Len(new_rows')][j])]]_vars

C24_Witness ==
    /\ pc = "forecast"
    /\ raw_rows = PlainRows
    /\ SEQ_LEN = 30
    /\ step = 2
    /\ Len(last_seq) = 30
    /\ last_seq[29] = ScaledRow(Len(df))
    /\ last_seq[1] = ScaledRow(Len(df) - 28)

\* C29: the forecast block is printed at most once in a run, and only when
\* all FORECAST_WINDOW steps have been generated; the process ends with
\* status 0 exactly when the block was printed; a run that stops at a failed
\* validation (no file at the CSV path, no target column, no row left, no
\* feature left) ends with status 1 and without the block.
C29_BlockAndStatus ==
    /\ [](/\ Len(output) <= 1
          /\ exit_code = 0 <=> output # <<>>
          /\ output # <<>> =>
                /\ pc = "done"
                /\ FORECAST_WINDOW >= 1
                /\ step = FORECAST_WINDOW + 1
                /\ Len(future_preds_scaled) = FORECAST_WINDOW
                /\ Len(output[1].predictions) = FORECAST_WINDOW
          /\ pc = "exit" => (exit_code = 1 /\ output = <<>>)
          /\ (series = "missing" /\ pc # "load") => pc = "exit"
          /\ (series = "absent" /\ pc \notin {"load", "features"}) => pc = "exit"
          /\ (Len(df) = 0 /\ pc \notin {"load", "features", "dropna"}) => pc = "exit"
          /\ (pc \in {"sequences", "split", "train", "evaluate", "forecast_init",
                      "forecast", "done"}) => X # <<>>)
    /\ [][output' # output =>
             /\ output = <<>>
             /\ pc = "forecast" /\ step = FORECAST_WINDOW + 1
             /\ pc' = "done" /\ exit_code' = 0]_vars

C29_Witness ==
    /\ pc = "done"
    /\ exit_code = 0
    /\ Len(output) = 1
    /\ FORECAST_WINDOW = 3
    /\ step = 4
    /\ Len(output[1].predictions) = 3
    /\ series = "flat"

\* C23: the model diagnosis reports exactly one of five outcomes, in fixed
\* priority: high train error when train RMSE > 0.8 x the deviation of the
\* training target; else low R2 when train R2 < 0.3; else overfitting when
\* the test / train RMSE ratio > 1.5; else unusual when the ratio < 0.8; else
\* good generalization.  Whatever the outcome, the script goes on to the
\* forecast with everything the forecast reads unchanged.
C23_DiagnosisPriority ==
    /\ [](pc = "forecast_init" /\ squares # <<>> =>
            LET a == RLt(RMul(squares.y_train_var, <<16, 25>>), squares.train_mse)
                b == RLt(TrainR2(squares), <<3, 10>>)
                c == RLt(<<9, 4>>, RDiv(squares.test_mse, squares.train_mse))
                d == RLt(RDiv(squares.test_mse, squares.train_mse), <<16, 25>>)
            IN  /\ diagnosis \in {"HIGH TRAIN ERROR", "LOW R2 SCORE",
                                  "OVERFITTING DETECTED", "UNUSUAL",
                                  "GOOD GENERALIZATION"}
                /\ diagnosis = "HIGH TRAIN ERROR" <=> a
                /\ diagnosis = "LOW R2 SCORE" <=> (~a /\ b)
                /\ diagnosis = "OVERFITTING DETECTED" <=> (~a /\ ~b /\ c)
                /\ diagnosis = "UNUSUAL" <=> (~a /\ ~b /\ ~c /\ d)
                /\ diagnosis = "GOOD GENERALIZATION" <=> (~a /\ ~b /\ ~c /\ ~d))
    /\ [][pc = "diagnose" =>
            /\ pc' = "forecast_init"
            /\ UNCHANGED <<exit_code, inputVars, featVars, df, selVars, encVars,
                           seqVars, split_idx, cv, model, conf_val, metrics,
                           squares, loopVars, output, shadow>>]_vars

C23_Witness ==
    /\ pc = "forecast_init"
    /\ squares = [train_mse |-> R(4), test_mse |-> R(0), y_train_var |-> R(4)]
    /\ diagnosis = "HIGH TRAIN ERROR"

=============================================================================
